---------------------------- MODULE Spec2Model ----------------------------
(***************************************************************************)
(* Model of the password-derived XOR cipher of the message board           *)
(* (src/unnamed/part_000 lines 434-699, the variant with deriveKeyBytes    *)
(* and xorEncryptDecrypt; src/src/App.tsx is the same component with the   *)
(* legacy one-byte key).                                                   *)
(*                                                                         *)
(* A JavaScript string is a sequence of UTF-16 code units (0..65535), a    *)
(* Uint8Array a sequence of bytes (0..255).  A call that can throw yields  *)
(* a record [ok |-> BOOLEAN, val |-> ...].                                 *)
(***************************************************************************)
EXTENDS Integers, Sequences, FiniteSets, TLC

VARIABLES
    sender,           \* useState("")  : the name field
    password,         \* useState("")  : the password field
    text,             \* useState("")  : the textarea
    mode,             \* useState<Mode>("encrypt")
    store,            \* the "messages" collection, in insertion order
    ghost,            \* for each record of store, the password typed for it
    logs,             \* useState<ChatLog[]>([]) : last snapshot, newest first
    decryptedResult,  \* useState("")
    alertMsg,         \* what the last handleProcess run showed with alert()
    pipe,             \* one encrypt/decrypt pipeline run (PipeSpec)
    xf,               \* one xorEncryptDecrypt experiment (XorSpec)
    plain,            \* for each record of store, the text typed for it
    failedBefore,     \* some decrypt submission has shown the failure alert
    runs,             \* the handleProcess runs that have not ended, in click order
    submits,          \* how many handleProcess runs passed the first line
    result,           \* the result state of the component copy of lines 22-257
    visibleDecryptIds,   \* useState({}) : record id -> decrypted text
    inlinePasswords,     \* useState({}) : record id -> typed inline password
    showPasswordInputs,  \* useState({}) : record id -> boolean
    inflight,         \* the handleInlineDecrypt calls made so far
    currentPage,      \* useState(1)
    decryptInputs,    \* useState({}) of src/src/App.tsx : record id -> password
    timers,           \* pending setTimeout callbacks of the Lock icon (App.tsx)
    inlineRun,        \* the last run of a Lock callback (App.tsx)
    legacy            \* one run of the legacy key derivation (App.tsx)

appVars == <<sender, password, text, mode, store, ghost, logs,
             decryptedResult, alertMsg>>
inlineVars == <<visibleDecryptIds, inlinePasswords, showPasswordInputs, inflight>>
legacyVars == <<decryptInputs, timers, inlineRun, legacy>>
restVars == <<plain, failedBefore, runs, submits, result, result, inlineVars,
              currentPage, legacyVars>>
vars == <<sender, password, text, mode, store, ghost, logs,
          decryptedResult, alertMsg, pipe, xf, plain, failedBefore, runs, submits,
          result,
          visibleDecryptIds, inlinePasswords, showPasswordInputs, inflight,
          currentPage, decryptInputs, timers, inlineRun, legacy>>

---------------------------------------------------------------------------
(* Bounds of the model.                                                    *)

MaxDataLen == 3     \* longest data handed to xorEncryptDecrypt in XorSpec
MaxKeyLen == 2      \* longest key handed to xorEncryptDecrypt in XorSpec
MaxMsgLen == 2      \* longest plaintext (in code units) in PipeSpec
MaxStore == 2       \* most records in the messages collection
MaxPending == 2     \* most handleProcess runs that have not ended
MaxSubmits == 2     \* most handleProcess runs that pass the first line
MaxFormStore == 1   \* most records appended by handleEncrypt
MaxFormSubmits == 2 \* most handleEncrypt and handleDecrypt runs past the guard
MaxFormInflight == 1 \* most handleInlineDecrypt calls of the list of lines 22-257
MaxInflight == 2    \* most handleInlineDecrypt calls in one behaviour
MaxPrompts == 2     \* most clicks on a Lock icon in one behaviour (App.tsx)
MaxLogs == 45       \* most records in the log list in PageSpec

---------------------------------------------------------------------------
(* Bitwise operations on numbers, by 4-bit digits.                         *)

Bit(n, k) == (n \div (2 ^ k)) % 2

\* JavaScript's a ^ b on 4-bit operands
XorNib ==
    [a \in 0..15 |-> [b \in 0..15 |->
          ((Bit(a, 0) + Bit(b, 0)) % 2)
        + 2 * ((Bit(a, 1) + Bit(b, 1)) % 2)
        + 4 * ((Bit(a, 2) + Bit(b, 2)) % 2)
        + 8 * ((Bit(a, 3) + Bit(b, 3)) % 2)]]

\* JavaScript's a & b on 4-bit operands
AndNib ==
    [a \in 0..15 |-> [b \in 0..15 |->
          (Bit(a, 0) * Bit(b, 0))
        + 2 * (Bit(a, 1) * Bit(b, 1))
        + 4 * (Bit(a, 2) * Bit(b, 2))
        + 8 * (Bit(a, 3) * Bit(b, 3))]]

Nib(n, k) == (n \div (16 ^ k)) % 16

\* a ^ b and a & b on 16-bit operands
Xor16(a, b) ==
      XorNib[Nib(a, 0)][Nib(b, 0)]
    + 16 * XorNib[Nib(a, 1)][Nib(b, 1)]
    + 256 * XorNib[Nib(a, 2)][Nib(b, 2)]
    + 4096 * XorNib[Nib(a, 3)][Nib(b, 3)]

And16(a, b) ==
      AndNib[Nib(a, 0)][Nib(b, 0)]
    + 16 * AndNib[Nib(a, 1)][Nib(b, 1)]
    + 256 * AndNib[Nib(a, 2)][Nib(b, 2)]
    + 4096 * AndNib[Nib(a, 3)][Nib(b, 3)]

---------------------------------------------------------------------------
(* xorEncryptDecrypt: data.map((byte, index) => byte ^ key[index % key.length]) *)

\* key[index % key.length] as the operand of ^ : with an empty key the index is
\* NaN, key[NaN] is undefined, and ToInt32(undefined) is 0.
KeyOperand(key, index) ==
    IF Len(key) = 0 THEN 0 ELSE key[(index % Len(key)) + 1]

\* a faulty variant: the key byte is added instead of xor-ed
xorEncryptDecrypt_add(data, key) ==
    [i \in 1..Len(data) |-> (data[i] + KeyOperand(key, i - 1)) % 256]

\* a faulty variant: only the first key byte is used (the legacy one-byte key)
xorEncryptDecrypt_first(data, key) ==
    [i \in 1..Len(data) |-> Xor16(data[i], KeyOperand(key, 0)) % 256]

\* index is the 0-based index of map's callback; the result is a Uint8Array
xorEncryptDecrypt(data, key) ==
    [i \in 1..Len(data) |-> Xor16(data[i], KeyOperand(key, i - 1)) % 256]

---------------------------------------------------------------------------
(* TextEncoder.encode: the UTF-8 bytes of a string (of UTF-16 code units). *)

IsHighSurrogate(c) == c >= 55296 /\ c <= 56319     \* D800..DBFF
IsLowSurrogate(c) == c >= 56320 /\ c <= 57343      \* DC00..DFFF

\* the UTF-8 bytes of one code point
Utf8Bytes(cp) ==
    IF cp < 128 THEN <<cp>>
    ELSE IF cp < 2048 THEN <<192 + (cp \div 64), 128 + (cp % 64)>>
    ELSE IF cp < 65536 THEN
        <<224 + (cp \div 4096), 128 + ((cp \div 64) % 64), 128 + (cp % 64)>>
    ELSE
        <<240 + (cp \div 262144), 128 + ((cp \div 4096) % 64),
          128 + ((cp \div 64) % 64), 128 + (cp % 64)>>

\* The string is first converted to scalar values: a surrogate pair is one
\* code point, a lone surrogate becomes U+FFFD (65533).
RECURSIVE EncodeFrom(_, _)
EncodeFrom(s, i) ==
    IF i > Len(s) THEN <<>>
    ELSE IF IsHighSurrogate(s[i]) /\ i < Len(s) /\ IsLowSurrogate(s[i + 1]) THEN
        Utf8Bytes(65536 + (s[i] - 55296) * 1024 + (s[i + 1] - 56320))
            \o EncodeFrom(s, i + 2)
    ELSE IF IsHighSurrogate(s[i]) \/ IsLowSurrogate(s[i]) THEN
        Utf8Bytes(65533) \o EncodeFrom(s, i + 1)
    ELSE Utf8Bytes(s[i]) \o EncodeFrom(s, i + 1)

TextEncoderEncode(s) == EncodeFrom(s, 1)

---------------------------------------------------------------------------
(* TextDecoder.decode: the UTF-8 decoder of the Encoding standard.         *)

\* the UTF-16 code units of one code point
Utf16Units(cp) ==
    IF cp < 65536 THEN <<cp>>
    ELSE <<55296 + ((cp - 65536) \div 1024), 56320 + ((cp - 65536) % 1024)>>

\* d is the decoder's state: the code point being assembled, the bytes it
\* still needs, and the bounds of the next continuation byte; out is the
\* string so far and bad says whether a malformed sequence was met.
RECURSIVE DecodeFrom(_, _, _)
DecodeFrom(bytes, i, d) ==
    IF i > Len(bytes) THEN
        IF d.needed # 0
        THEN [out |-> d.out \o <<65533>>, bad |-> TRUE]
        ELSE [out |-> d.out, bad |-> d.bad]
    ELSE
        LET b == bytes[i]
            fresh == [cp |-> 0, needed |-> 0, lower |-> 128, upper |-> 191,
                      out |-> d.out, bad |-> d.bad]
        IN  IF d.needed = 0 THEN
                IF b <= 127 THEN
                    DecodeFrom(bytes, i + 1, [d EXCEPT !.out = @ \o <<b>>])
                ELSE IF b >= 194 /\ b <= 223 THEN
                    DecodeFrom(bytes, i + 1,
                        [d EXCEPT !.needed = 1, !.cp = b % 32])
                ELSE IF b >= 224 /\ b <= 239 THEN
                    DecodeFrom(bytes, i + 1,
                        [d EXCEPT !.needed = 2, !.cp = b % 16,
                                  !.lower = IF b = 224 THEN 160 ELSE 128,
                                  !.upper = IF b = 237 THEN 159 ELSE 191])
                ELSE IF b >= 240 /\ b <= 244 THEN
                    DecodeFrom(bytes, i + 1,
                        [d EXCEPT !.needed = 3, !.cp = b % 8,
                                  !.lower = IF b = 240 THEN 144 ELSE 128,
                                  !.upper = IF b = 244 THEN 143 ELSE 191])
                ELSE
                    DecodeFrom(bytes, i + 1,
                        [d EXCEPT !.out = @ \o <<65533>>, !.bad = TRUE])
            ELSE IF b < d.lower \/ b > d.upper THEN
                \* the byte is put back and read again as a first byte
                DecodeFrom(bytes, i,
                    [fresh EXCEPT !.out = @ \o <<65533>>, !.bad = TRUE])
            ELSE IF d.needed = 1 THEN
                DecodeFrom(bytes, i + 1,
                    [fresh EXCEPT !.out = @ \o Utf16Units(d.cp * 64 + (b % 64))])
            ELSE
                DecodeFrom(bytes, i + 1,
                    [d EXCEPT !.cp = d.cp * 64 + (b % 64), !.needed = @ - 1,
                              !.lower = 128, !.upper = 191])

StartsWithBOM(bytes) ==
    Len(bytes) >= 3 /\ bytes[1] = 239 /\ bytes[2] = 187 /\ bytes[3] = 191

\* decode(bytes) of a TextDecoder made with the options {fatal, ignoreBOM}:
\* a leading byte order mark is dropped unless ignoreBOM, and a malformed
\* sequence throws a TypeError when fatal and decodes to U+FFFD otherwise.
TextDecoderDecodeWith(bytes, fatal, ignoreBOM) ==
    LET from == IF ~ignoreBOM /\ StartsWithBOM(bytes) THEN 4 ELSE 1
        r == DecodeFrom(bytes, from,
                 [cp |-> 0, needed |-> 0, lower |-> 128, upper |-> 191,
                  out |-> <<>>, bad |-> FALSE])
    IN  IF fatal /\ r.bad THEN [ok |-> FALSE, val |-> <<>>]
        ELSE [ok |-> TRUE, val |-> r.out]

\* new TextDecoder().decode(bytes): utf-8, fatal = false, ignoreBOM = false
TextDecoderDecode(bytes) == TextDecoderDecodeWith(bytes, FALSE, FALSE)

---------------------------------------------------------------------------
(* btoa and atob: Base64 of a binary string.                               *)

\* the character of a 6-bit value, and back (64 for a character outside the
\* alphabet)
B64Char(v) ==
    IF v < 26 THEN 65 + v
    ELSE IF v < 52 THEN 97 + (v - 26)
    ELSE IF v < 62 THEN 48 + (v - 52)
    ELSE IF v = 62 THEN 43 ELSE 47

B64Value(c) ==
    IF c >= 65 /\ c <= 90 THEN c - 65
    ELSE IF c >= 97 /\ c <= 122 THEN c - 97 + 26
    ELSE IF c >= 48 /\ c <= 57 THEN c - 48 + 52
    ELSE IF c = 43 THEN 62
    ELSE IF c = 47 THEN 63 ELSE 64

RECURSIVE BtoaFrom(_, _)
BtoaFrom(s, i) ==
    LET left == Len(s) - i + 1
    IN  IF left <= 0 THEN <<>>
        ELSE IF left = 1 THEN
            <<B64Char(s[i] \div 4), B64Char((s[i] % 4) * 16), 61, 61>>
        ELSE IF left = 2 THEN
            <<B64Char(s[i] \div 4),
              B64Char((s[i] % 4) * 16 + (s[i + 1] \div 16)),
              B64Char((s[i + 1] % 16) * 4), 61>>
        ELSE
            <<B64Char(s[i] \div 4),
              B64Char((s[i] % 4) * 16 + (s[i + 1] \div 16)),
              B64Char((s[i + 1] % 16) * 4 + (s[i + 2] \div 64)),
              B64Char(s[i + 2] % 64)>> \o BtoaFrom(s, i + 3)

\* btoa(s): throws InvalidCharacterError when a code unit is above 255
btoa(s) ==
    IF \E i \in 1..Len(s) : s[i] > 255 THEN [ok |-> FALSE, val |-> <<>>]
    ELSE [ok |-> TRUE, val |-> BtoaFrom(s, 1)]

IsAsciiWhitespace(c) == c \in {9, 10, 12, 13, 32}

RECURSIVE AtobFrom(_, _)
AtobFrom(s, i) ==
    LET left == Len(s) - i + 1
        v(k) == B64Value(s[i + k])
    IN  IF left <= 0 THEN <<>>
        ELSE IF left = 2 THEN <<v(0) * 4 + (v(1) \div 16)>>
        ELSE IF left = 3 THEN
            <<v(0) * 4 + (v(1) \div 16), (v(1) % 16) * 16 + (v(2) \div 4)>>
        ELSE
            <<v(0) * 4 + (v(1) \div 16), (v(1) % 16) * 16 + (v(2) \div 4),
              (v(2) % 4) * 64 + v(3)>> \o AtobFrom(s, i + 4)

\* the "forgiving-base64 decode" of the HTML standard, with or without its
\* first two steps (whitespace is removed; padding may be left out)
AtobWith(s, forgiving) ==
    LET noWs == IF forgiving THEN SelectSeq(s, LAMBDA c : ~IsAsciiWhitespace(c))
                ELSE s
        n == Len(noWs)
        pad == IF n % 4 = 0 /\ n > 0 /\ noWs[n] = 61
               THEN IF n > 1 /\ noWs[n - 1] = 61 THEN 2 ELSE 1
               ELSE 0
        body == SubSeq(noWs, 1, n - pad)
    IN  IF (~forgiving /\ n % 4 # 0)
           \/ Len(body) % 4 = 1
           \/ \E i \in 1..Len(body) : B64Value(body[i]) = 64
        THEN [ok |-> FALSE, val |-> <<>>]
        ELSE [ok |-> TRUE, val |-> AtobFrom(body, 1)]

\* a faulty variant: a decoder that insists on the padding
atob_strict(s) == AtobWith(s, FALSE)

\* atob(s): throws InvalidCharacterError when s is not forgiving-base64
atob(s) == AtobWith(s, TRUE)

\* String.fromCharCode(...bytes): each argument taken modulo 2^16
StringFromCharCode(bytes) == [i \in 1..Len(bytes) |-> bytes[i] % 65536]

\* new Uint8Array([...binaryStr].map((c) => c.charCodeAt(0))): each code unit
\* taken modulo 2^8
Uint8ArrayOfString(s) == [i \in 1..Len(s) |-> s[i] % 256]

---------------------------------------------------------------------------
(* crypto.subtle.digest("SHA-256", data) (FIPS 180-4).  A 32-bit word is a *)
(* pair <<high 16 bits, low 16 bits>>.                                     *)

WXor(x, y) == <<Xor16(x[1], y[1]), Xor16(x[2], y[2])>>
WAnd(x, y) == <<And16(x[1], y[1]), And16(x[2], y[2])>>
WNot(x) == <<65535 - x[1], 65535 - x[2]>>
WAdd(x, y) ==
    <<(x[1] + y[1] + ((x[2] + y[2]) \div 65536)) % 65536, (x[2] + y[2]) % 65536>>

\* rotate right and shift right by n bits, 0 < n < 32
RotR(x, n) ==
    LET a == IF n >= 16 THEN x[2] ELSE x[1]
        b == IF n >= 16 THEN x[1] ELSE x[2]
        m == n % 16
    IN  <<(a \div (2 ^ m)) + (b % (2 ^ m)) * (2 ^ (16 - m)),
          (b \div (2 ^ m)) + (a % (2 ^ m)) * (2 ^ (16 - m))>>

ShR(x, n) ==
    IF n >= 16 THEN <<0, x[1] \div (2 ^ (n - 16))>>
    ELSE <<x[1] \div (2 ^ n),
           (x[2] \div (2 ^ n)) + (x[1] % (2 ^ n)) * (2 ^ (16 - n))>>

Ch(x, y, z) == WXor(WAnd(x, y), WAnd(WNot(x), z))
Maj(x, y, z) == WXor(WXor(WAnd(x, y), WAnd(x, z)), WAnd(y, z))
BigSigma0(x) == WXor(WXor(RotR(x, 2), RotR(x, 13)), RotR(x, 22))
BigSigma1(x) == WXor(WXor(RotR(x, 6), RotR(x, 11)), RotR(x, 25))
SmallSigma0(x) == WXor(WXor(RotR(x, 7), RotR(x, 18)), ShR(x, 3))
SmallSigma1(x) == WXor(WXor(RotR(x, 17), RotR(x, 19)), ShR(x, 10))

ShaK == <<
    <<17034, 12184>>, <<28983, 17553>>, <<46528, 64463>>, <<59829, 56229>>,
    <<14678, 49755>>, <<23025, 4593>>, <<37439, 33444>>, <<43804, 24277>>,
    <<55303, 43672>>, <<4739, 23297>>, <<9265, 34238>>, <<21772, 32195>>,
    <<29374, 23924>>, <<32990, 45566>>, <<39900, 1703>>, <<49563, 61812>>,
    <<58523, 27073>>, <<61374, 18310>>, <<4033, 40390>>, <<9228, 41420>>,
    <<11753, 11375>>, <<19060, 33962>>, <<23728, 43484>>, <<30457, 35034>>,
    <<38974, 20818>>, <<43057, 50797>>, <<45059, 10184>>, <<48985, 32711>>,
    <<50912, 3059>>, <<54695, 37191>>, <<1738, 25425>>, <<5161, 10599>>,
    <<10167, 2693>>, <<11803, 8504>>, <<19756, 28156>>, <<21304, 3347>>,
    <<25866, 29524>>, <<30314, 2747>>, <<33218, 51502>>, <<37490, 11397>>,
    <<41663, 59553>>, <<43034, 26187>>, <<49739, 35696>>, <<51052, 20899>>,
    <<53650, 59417>>, <<54937, 1572>>, <<62478, 13701>>, <<4202, 41072>>,
    <<6564, 49430>>, <<7735, 27656>>, <<10056, 30540>>, <<13488, 48309>>,
    <<14620, 3251>>, <<20184, 43594>>, <<23452, 51791>>, <<26670, 28659>>,
    <<29839, 33518>>, <<30885, 25455>>, <<33992, 30740>>, <<36039, 520>>,
    <<37054, 65530>>, <<42064, 27883>>, <<48889, 41975>>, <<50801, 30962>>>>

ShaH0 == <<
    <<27145, 58983>>, <<47975, 44677>>, <<15470, 62322>>, <<42319, 62778>>,
    <<20750, 21119>>, <<39685, 26764>>, <<8067, 55723>>, <<23520, 52505>>>>

\* the message followed by 0x80, zeros, and its length in bits as 64 bits
\* (the model's messages are shorter than 2^13 bytes)
ShaPad(msg) ==
    LET n == Len(msg)
        zeros == (119 - (n % 64)) % 64
        bits == n * 8
    IN  msg \o <<128>> \o [i \in 1..zeros |-> 0]
            \o <<0, 0, 0, 0, 0, 0, bits \div 256, bits % 256>>

\* Bound by a quantifier, not by LET: TLC computes the value of x at once,
\* and once, before it evaluates F(x).
Then(x, F(_)) == CHOOSE r \in {F(y) : y \in {x}} : TRUE

\* The message schedule w (its first lo - 1 words) extended with the words
\* lo..hi.  The range is halved so that the nesting stays shallow.
RECURSIVE ShaSchedule(_, _, _)
ShaSchedule(w, lo, hi) ==
    IF lo = hi THEN
        Append(w, WAdd(WAdd(SmallSigma1(w[lo - 2]), w[lo - 7]),
                       WAdd(SmallSigma0(w[lo - 15]), w[lo - 16])))
    ELSE LET mid == (lo + hi) \div 2
         IN  Then(ShaSchedule(w, lo, mid), LAMBDA m : ShaSchedule(m, mid + 1, hi))

ShaBlockWords(m, off) ==
    ShaSchedule([j \in 1..16 |->
                    <<m[off + 4 * j - 3] * 256 + m[off + 4 * j - 2],
                      m[off + 4 * j - 1] * 256 + m[off + 4 * j]>>], 17, 64)

\* v is <<a, b, c, d, e, f, g, h>>
ShaRound(v, k, w) ==
    LET t1 == WAdd(WAdd(WAdd(v[8], BigSigma1(v[5])), Ch(v[5], v[6], v[7])),
                   WAdd(k, w))
        t2 == WAdd(BigSigma0(v[1]), Maj(v[1], v[2], v[3]))
    IN  <<WAdd(t1, t2), v[1], v[2], v[3], WAdd(v[4], t1), v[5], v[6], v[7]>>

\* The working variables v after rounds lo..hi, halved like the schedule.
RECURSIVE ShaRounds(_, _, _, _)
ShaRounds(v, w, lo, hi) ==
    IF lo = hi THEN ShaRound(v, ShaK[lo], w[lo])
    ELSE LET mid == (lo + hi) \div 2
         IN  Then(ShaRounds(v, w, lo, mid), LAMBDA m : ShaRounds(m, w, mid + 1, hi))

\* the hash value after the first n blocks of the padded message m
RECURSIVE ShaBlocks(_, _)
ShaBlocks(m, n) ==
    IF n = 0 THEN ShaH0
    ELSE Then(ShaBlocks(m, n - 1), LAMBDA h :
             Then(ShaBlockWords(m, 64 * (n - 1)), LAMBDA w :
                 Then(ShaRounds(h, w, 1, 64), LAMBDA v :
                     [i \in 1..8 |-> WAdd(h[i], v[i])])))

\* the digest as 32 bytes, big-endian word by word
Sha256(msg) ==
    LET padded == ShaPad(msg)
        h == ShaBlocks(padded, Len(padded) \div 64)
    IN  [i \in 1..32 |->
            LET word == h[((i - 1) \div 4) + 1]
                half == IF ((i - 1) % 4) < 2 THEN word[1] ELSE word[2]
            IN  IF (i - 1) % 2 = 0 THEN half \div 256 ELSE half % 256]

---------------------------------------------------------------------------
(* Key derivation.                                                         *)

\* the passwords the model types: "", "a", "ab", "!", "***" and "é"
Passwords == {<<>>, <<97>>, <<97, 98>>, <<33>>, <<42, 42, 42>>, <<233>>}

\* a faulty variant: the rolling hash without its reduction modulo 256
RECURSIVE UnreducedHashFrom(_, _, _)
UnreducedHashFrom(pw, i, hash) ==
    IF i > Len(pw) THEN hash
    ELSE UnreducedHashFrom(pw, i + 1, hash * 31 + pw[i])

deriveKeyFromPassword_unreduced(pw) == UnreducedHashFrom(pw, 1, 0)

\* deriveKeyFromPassword of src/src/App.tsx (the legacy rolling hash)
RECURSIVE LegacyHashFrom(_, _, _)
LegacyHashFrom(pw, i, hash) ==
    IF i > Len(pw) THEN hash
    ELSE LegacyHashFrom(pw, i + 1, (hash * 31 + pw[i]) % 256)

deriveKeyFromPassword(pw) == LegacyHashFrom(pw, 1, 0)

\* the digests of the model's passwords, computed once
KeyCache == [p \in Passwords |-> Sha256(TextEncoderEncode(p))]

\* a faulty variant: the legacy hash as a one-byte key
deriveKeyBytes_legacy(pw) == <<deriveKeyFromPassword(pw)>>

\* a faulty variant: new Uint16Array(hashBuffer), the digest as 16 little-endian words
deriveKeyBytes_uint16(pw) ==
    LET d == IF pw \in DOMAIN KeyCache THEN KeyCache[pw]
             ELSE Sha256(TextEncoderEncode(pw))
    IN  [i \in 1..16 |-> d[2 * i - 1] + 256 * d[2 * i]]

\* deriveKeyBytes: new Uint8Array(await crypto.subtle.digest("SHA-256",
\* encoder.encode(password)))
KeyFor(cache, pw) ==
    IF pw \in DOMAIN cache THEN cache[pw] ELSE Sha256(TextEncoderEncode(pw))

deriveKeyBytes(pw) == KeyFor(KeyCache, pw)

---------------------------------------------------------------------------
(* The two branches of handleProcess, as functions of the text and the key. *)

\* a faulty variant: the cipher bytes as a string, without btoa
encryptWithKey_raw(txt, keyBytes) ==
    [ok |-> TRUE,
     val |-> StringFromCharCode(xorEncryptDecrypt(TextEncoderEncode(txt), keyBytes))]

\* encoder.encode, xorEncryptDecrypt, String.fromCharCode, btoa
encryptWithKey(txt, keyBytes) ==
    LET bytes == TextEncoderEncode(txt)
        encrypted == xorEncryptDecrypt(bytes, keyBytes)
        encryptedStr == StringFromCharCode(encrypted)
    IN  btoa(encryptedStr)

\* a faulty variant: a failure is taken for an empty result
decryptWithKey_swallow(txt, keyBytes) ==
    LET binaryStr == atob(txt)
    IN  IF ~binaryStr.ok THEN [ok |-> TRUE, val |-> <<>>]
        ELSE TextDecoderDecode(
                 xorEncryptDecrypt(Uint8ArrayOfString(binaryStr.val), keyBytes))

\* atob, charCodeAt, xorEncryptDecrypt, decoder.decode; ok = FALSE when the
\* try block throws
decryptWithKey(txt, keyBytes) ==
    LET binaryStr == atob(txt)
    IN  IF ~binaryStr.ok THEN [ok |-> FALSE, val |-> <<>>]
        ELSE TextDecoderDecode(
                 xorEncryptDecrypt(Uint8ArrayOfString(binaryStr.val), keyBytes))

---------------------------------------------------------------------------
(* Inputs of the model.                                                    *)

SampleBytes == {0, 90, 165, 255}

RECURSIVE SeqsUpTo(_, _)
SeqsUpTo(S, n) ==
    IF n = 0 THEN {<<>>}
    ELSE LET shorter == SeqsUpTo(S, n - 1)
         IN  shorter \cup {Append(q, x) : q \in {r \in shorter : Len(r) = n - 1},
                                          x \in S}

\* the code units of PipeSpec's messages: A, é, the euro sign, U+FEFF, and
\* the two halves of U+1F600
MsgUnits == {65, 233, 8364, 65279, 55357, 56832}

Messages == SeqsUpTo(MsgUnits, MaxMsgLen)

\* what is typed into the form: the names "" and "s"; the passwords "", "a"
\* and "***"; the texts "A", "QQ" and "AA=="
Senders == {<<>>, <<115>>}
FormPasswords == {<<>>, <<97>>, <<42, 42, 42>>}
TypedTexts == {<<65>>, <<81, 81>>, <<65, 65, 61, 61>>}

NoResult == [ok |-> FALSE, val |-> <<>>]
IdleXf == [pc |-> "idle", data |-> <<>>, key |-> <<>>, out |-> <<>>, back |-> <<>>]
IdlePipe == [pc |-> "idle", name |-> <<>>, m |-> <<>>, p1 |-> <<>>, p2 |-> <<>>,
             k1 |-> <<>>, k2 |-> <<>>, enc |-> <<>>, dec |-> NoResult]
NoRun == [ran |-> FALSE, id |-> 0, entered |-> <<>>, defined |-> FALSE,
          used |-> <<>>, key |-> 0, threw |-> FALSE]
IdleLegacy == [pc |-> "idle", pw |-> <<>>, key |-> 0, clicks |-> 0]

---------------------------------------------------------------------------
(* XorSpec: xorEncryptDecrypt applied to some data and key, then to its    *)
(* own output with the same key.                                           *)

XorInit ==
    /\ sender = <<>> /\ password = <<>> /\ text = <<>> /\ mode = "encrypt"
    /\ store = <<>> /\ ghost = <<>> /\ logs = <<>>
    /\ decryptedResult = <<>> /\ alertMsg = "none"
    /\ plain = <<>> /\ failedBefore = FALSE /\ runs = <<>> /\ submits = 0
    /\ result = <<>>
    /\ visibleDecryptIds = <<>> /\ inlinePasswords = <<>>
    /\ showPasswordInputs = <<>> /\ inflight = {}
    /\ currentPage = 1
    /\ decryptInputs = <<>> /\ timers = {} /\ inlineRun = NoRun
    /\ legacy = IdleLegacy
    /\ pipe = IdlePipe
    /\ xf \in [pc : {"init"}, data : SeqsUpTo(SampleBytes, MaxDataLen),
               key : SeqsUpTo(SampleBytes, MaxKeyLen), out : {<<>>}, back : {<<>>}]

XorApply ==
    /\ xf.pc = "init"
    /\ xf' = [xf EXCEPT !.pc = "once", !.out = xorEncryptDecrypt(xf.data, xf.key)]
    /\ UNCHANGED <<appVars, pipe, restVars>>

XorApplyAgain ==
    /\ xf.pc = "once"
    /\ xf' = [xf EXCEPT !.pc = "twice", !.back = xorEncryptDecrypt(xf.out, xf.key)]
    /\ UNCHANGED <<appVars, pipe, restVars>>

XorNext == XorApply \/ XorApplyAgain

XorSpec == XorInit /\ [][XorNext]_vars

---------------------------------------------------------------------------
(* PipeSpec: the form filled with a name, a message m and a password p1    *)
(* and submitted in encrypt mode; then the stored text submitted in        *)
(* decrypt mode with p2 in the password field, step by step as the two     *)
(* runs of handleProcess go.                                               *)

PipeInit ==
    /\ sender = <<>> /\ password = <<>> /\ text = <<>> /\ mode = "encrypt"
    /\ store = <<>> /\ ghost = <<>> /\ logs = <<>>
    /\ decryptedResult = <<>> /\ alertMsg = "none"
    /\ plain = <<>> /\ failedBefore = FALSE /\ runs = <<>> /\ submits = 0
    /\ result = <<>>
    /\ visibleDecryptIds = <<>> /\ inlinePasswords = <<>>
    /\ showPasswordInputs = <<>> /\ inflight = {}
    /\ currentPage = 1
    /\ decryptInputs = <<>> /\ timers = {} /\ inlineRun = NoRun
    /\ legacy = IdleLegacy
    /\ xf = IdleXf
    /\ pipe \in [pc : {"start"}, name : Senders, m : Messages,
                 p1 : Passwords, p2 : Passwords,
                 k1 : {<<>>}, k2 : {<<>>}, enc : {<<>>}, dec : {NoResult}]

PipeEncryptWithKey(keyBytes) ==
    [pipe EXCEPT !.pc = "addDoc", !.k1 = keyBytes,
                 !.enc = encryptWithKey(pipe.m, keyBytes).val]

PipeDecryptWithKey(keyBytes) ==
    [pipe EXCEPT !.pc = "decrypted", !.k2 = keyBytes,
                 !.dec = decryptWithKey(pipe.enc, keyBytes)]

\* the click in encrypt mode on the form filled with name, m and p1: the
\* guard of handleProcess, then the call of deriveKeyBytes and its await
PipeEncryptClick ==
    /\ pipe.pc = "start"
    /\ pipe' = [pipe EXCEPT !.pc =
                   IF pipe.m = <<>> \/ pipe.p1 = <<>> \/ pipe.name = <<>>
                   THEN "returned" ELSE "digest1"]
    /\ UNCHANGED <<appVars, xf, restVars>>

\* the digest of p1 resolves: the encrypt branch up to the call of addDoc
PipeEncrypt ==
    /\ pipe.pc = "digest1"
    /\ pipe' = PipeEncryptWithKey(deriveKeyBytes(pipe.p1))
    /\ UNCHANGED <<appVars, xf, restVars>>

\* addDoc resolves and the encrypt run ends
PipeAddDocResolved ==
    /\ pipe.pc = "addDoc"
    /\ pipe' = [pipe EXCEPT !.pc = "stored"]
    /\ UNCHANGED <<appVars, xf, restVars>>

\* the click in decrypt mode on the stored text, the password field holding
\* p2: the guard (decrypt mode asks for a text only), then the call of
\* deriveKeyBytes and its await
PipeDecryptClick ==
    /\ pipe.pc = "stored"
    /\ pipe' = [pipe EXCEPT !.pc =
                   IF pipe.enc = <<>> THEN "returned" ELSE "digest2"]
    /\ UNCHANGED <<appVars, xf, restVars>>

\* the digest of p2 resolves: the try block of the decrypt branch
PipeDecrypt ==
    /\ pipe.pc = "digest2"
    /\ pipe' = PipeDecryptWithKey(deriveKeyBytes(pipe.p2))
    /\ UNCHANGED <<appVars, xf, restVars>>

PipeNext ==
    \/ PipeEncryptClick
    \/ PipeEncrypt
    \/ PipeAddDocResolved
    \/ PipeDecryptClick
    \/ PipeDecrypt

PipeSpec == PipeInit /\ [][PipeNext]_vars

---------------------------------------------------------------------------
(* Spec: the component.  Its state after the first render, the input       *)
(* handlers, handleProcess and the snapshot listener.                      *)

Init ==
    /\ sender = <<>> /\ password = <<>> /\ text = <<>> /\ mode = "encrypt"
    /\ store = <<>> /\ ghost = <<>> /\ logs = <<>>
    /\ decryptedResult = <<>> /\ alertMsg = "none"
    /\ plain = <<>> /\ failedBefore = FALSE /\ runs = <<>> /\ submits = 0
    /\ result = <<>>
    /\ visibleDecryptIds = <<>> /\ inlinePasswords = <<>>
    /\ showPasswordInputs = <<>> /\ inflight = {}
    /\ currentPage = 1
    /\ decryptInputs = <<>> /\ timers = {} /\ inlineRun = NoRun
    /\ legacy = IdleLegacy
    /\ pipe = IdlePipe
    /\ xf = IdleXf

\* onChange of the name and password inputs, rendered in encrypt mode only
SetSender ==
    /\ mode = "encrypt"
    /\ \E s \in Senders : sender' = s
    /\ UNCHANGED <<password, text, mode, store, ghost, logs, decryptedResult,
                   alertMsg, pipe, xf, restVars>>

SetPassword ==
    /\ mode = "encrypt"
    /\ \E p \in FormPasswords : password' = p
    /\ UNCHANGED <<sender, text, mode, store, ghost, logs, decryptedResult,
                   alertMsg, pipe, xf, restVars>>

\* onChange of the textarea: a typed text, or the text of a displayed record
\* pasted in
SetText ==
    /\ \E t \in TypedTexts \cup {logs[i].text : i \in 1..Len(logs)} : text' = t
    /\ UNCHANGED <<sender, password, mode, store, ghost, logs, decryptedResult,
                   alertMsg, pipe, xf, restVars>>

\* onChange of the select
SetMode ==
    /\ \E m \in {"encrypt", "decrypt"} : mode' = m
    /\ UNCHANGED <<sender, password, text, store, ghost, logs, decryptedResult,
                   alertMsg, pipe, xf, restVars>>

\* a faulty variant: the password is stored as typed
StoredPassword_verbatim(pw) == pw

\* the password field of the document handed to addDoc
StoredPassword(pw) == <<42, 42, 42>>

\* the document handleProcess hands to addDoc (without its timestamp)
NewDoc(s, pw, keyBytes, txt, m) ==
    [sender |-> s, password |-> StoredPassword(pw),
     text |-> encryptWithKey(txt, keyBytes).val, mode |-> m]

\* a faulty variant: the name is not required
ProcessReturnsEarly_noSender ==
    text = <<>> \/ (mode = "encrypt" /\ password = <<>>)

\* if (!text || (mode === "encrypt" && (!password || !sender))) return;
ProcessReturnsEarly ==
    text = <<>> \/ (mode = "encrypt" /\ (password = <<>> \/ sender = <<>>))

\* a sequence without its i-th element
RemoveAt(q, i) == [j \in 1..(Len(q) - 1) |-> IF j < i THEN q[j] ELSE q[j + 1]]

\* the encrypt runs whose document is not yet handed to addDoc
EncryptRunsAtDigest ==
    {i \in 1..Len(runs) : runs[i].mode = "encrypt" /\ runs[i].pc = "digest"}

\* onClick of the submit button: handleProcess up to its first await.  The
\* run keeps the sender, password, text and mode of the render it was
\* created in.
HandleProcess ==
    /\ IF ProcessReturnsEarly THEN UNCHANGED <<runs, submits>>
       ELSE /\ submits < MaxSubmits
            /\ submits' = submits + 1
            /\ Len(runs) < MaxPending
            /\ mode = "encrypt" =>
                   Len(store) + Cardinality(EncryptRunsAtDigest) < MaxStore
            /\ runs' = Append(runs, [sender |-> sender, password |-> password,
                                     text |-> text, mode |-> mode,
                                     pc |-> "digest"])
    /\ UNCHANGED <<appVars, pipe, xf, plain, failedBefore, result, inlineVars,
                   currentPage, legacyVars>>

\* handleProcess of run i after const keyBytes = await deriveKeyBytes(password):
\* the encrypt branch up to the call of addDoc, which puts the document in
\* the collection, or the whole decrypt branch.  alertMsg is what the run
\* that ended last showed.
ProcessWithKey(i, keyBytes) ==
    IF runs[i].mode = "encrypt" THEN
        /\ store' = Append(store, NewDoc(runs[i].sender, runs[i].password,
                                         keyBytes, runs[i].text, runs[i].mode))
        /\ ghost' = Append(ghost, runs[i].password)
        /\ plain' = Append(plain, runs[i].text)
        /\ runs' = [runs EXCEPT ![i].pc = "addDoc"]
        /\ UNCHANGED <<text, alertMsg, decryptedResult, failedBefore>>
    ELSE LET r == decryptWithKey(runs[i].text, keyBytes)
         IN  /\ runs' = RemoveAt(runs, i)
             /\ IF r.ok THEN
                    /\ decryptedResult' = r.val
                    /\ text' = <<>>
                    /\ alertMsg' = "none"
                    /\ UNCHANGED <<store, ghost, plain, failedBefore>>
                ELSE
                    /\ alertMsg' = "not-base64"
                    /\ failedBefore' = TRUE
                    /\ UNCHANGED <<text, store, ghost, decryptedResult, plain>>

\* the digest awaited by run i resolves
ResumeRun(i) ==
    /\ i \in 1..Len(runs)
    /\ runs[i].pc = "digest"
    /\ ProcessWithKey(i, deriveKeyBytes(runs[i].password))
    /\ UNCHANGED <<sender, password, mode, logs, pipe, xf, submits, result, inlineVars,
                   currentPage, legacyVars>>

ProcessResume == \E i \in 1..Len(runs) : ResumeRun(i)

\* the addDoc awaited by run i resolves: setText(""), and the run ends
AddDocResolved ==
    /\ \E i \in 1..Len(runs) :
          /\ runs[i].pc = "addDoc"
          /\ runs' = RemoveAt(runs, i)
    /\ text' = <<>>
    /\ alertMsg' = "none"
    /\ UNCHANGED <<sender, password, mode, store, ghost, logs, decryptedResult,
                   pipe, xf, plain, failedBefore, submits, result, inlineVars,
                   currentPage, legacyVars>>

\* the onSnapshot listener: the documents by timestamp, newest first, each with
\* its id (here its position in the collection)
SnapshotDocs(docs) ==
    [i \in 1..Len(docs) |->
        [id |-> Len(docs) + 1 - i,
         sender |-> docs[Len(docs) + 1 - i].sender,
         password |-> docs[Len(docs) + 1 - i].password,
         text |-> docs[Len(docs) + 1 - i].text,
         mode |-> docs[Len(docs) + 1 - i].mode]]

OnSnapshot ==
    /\ logs' = SnapshotDocs(store)
    /\ UNCHANGED <<sender, password, text, mode, store, ghost, decryptedResult,
                   alertMsg, pipe, xf, restVars>>

Next ==
    \/ SetSender
    \/ SetPassword
    \/ SetText
    \/ SetMode
    \/ HandleProcess
    \/ ProcessResume
    \/ AddDocResolved
    \/ OnSnapshot

Spec == Init /\ [][Next]_vars

---------------------------------------------------------------------------
(* The log list: pagination and the inline decryption of a displayed       *)
(* record.                                                                 *)

LOGS_PER_PAGE == 10

Min(a, b) == IF a < b THEN a ELSE b
Max(a, b) == IF a > b THEN a ELSE b

\* Array.prototype.slice(start, end): a negative index counts from the end
Slice(s, start, end) ==
    LET from == IF start < 0 THEN Max(Len(s) + start, 0) ELSE Min(start, Len(s))
        to == IF end < 0 THEN Max(Len(s) + end, 0) ELSE Min(end, Len(s))
    IN  [i \in 1..(to - from) |-> s[from + i]]

\* Math.ceil(logs.length / LOGS_PER_PAGE)
totalPages == (Len(logs) + LOGS_PER_PAGE - 1) \div LOGS_PER_PAGE

paginatedLogs ==
    Slice(logs, (currentPage - 1) * LOGS_PER_PAGE, currentPage * LOGS_PER_PAGE)

\* showPasswordInputs[id] and visibleDecryptIds[id] as conditions
IsShown(id) == id \in DOMAIN showPasswordInputs /\ showPasswordInputs[id]
IsVisible(id) == id \in DOMAIN visibleDecryptIds /\ visibleDecryptIds[id] # <<>>

\* the passwords typed into an inline input: "a" and "***"
InlineTyped == {<<97>>, <<42, 42, 42>>}

\* a faulty variant: the update drops the entries of the other records
MergeVisible_replace(prev, id, val) == id :> val

\* (prev) => ({ ...prev, [log.id!]: decryptedText })
MergeVisible(prev, id, val) == (id :> val) @@ prev

\* onClick of the Lock icon of a displayed record
LockClick ==
    /\ \E i \in 1..Len(paginatedLogs) :
          LET log == paginatedLogs[i]
          IN  /\ log.mode = "encrypt" /\ ~IsVisible(log.id)
              /\ showPasswordInputs' =
                     (log.id :> ~IsShown(log.id)) @@ showPasswordInputs
    /\ UNCHANGED <<appVars, pipe, xf, plain, failedBefore, runs, submits, result,
                   visibleDecryptIds,
                   inlinePasswords, inflight, currentPage, legacyVars>>

\* onChange of the inline password input of a displayed record
InlinePasswordChange ==
    /\ \E i \in 1..Len(paginatedLogs), p \in InlineTyped :
          LET log == paginatedLogs[i]
          IN  /\ log.mode = "encrypt" /\ IsShown(log.id) /\ ~IsVisible(log.id)
              /\ inlinePasswords' = (log.id :> p) @@ inlinePasswords
    /\ UNCHANGED <<appVars, pipe, xf, plain, failedBefore, runs, submits, result,
                   visibleDecryptIds,
                   showPasswordInputs, inflight, currentPage, legacyVars>>

\* onClick of the inline confirm button: handleInlineDecrypt(log,
\* inlinePasswords[log.id] || "") runs up to its await, and the input is hidden
InlineConfirm ==
    /\ Cardinality(inflight) < MaxInflight
    /\ \E i \in 1..Len(paginatedLogs) :
          LET log == paginatedLogs[i]
              typed == IF log.id \in DOMAIN inlinePasswords
                       THEN inlinePasswords[log.id] ELSE <<>>
          IN  /\ log.mode = "encrypt" /\ IsShown(log.id) /\ ~IsVisible(log.id)
              /\ inflight' = inflight \cup
                     {[log |-> log, password |-> typed,
                       started |-> Cardinality(inflight) + 1, finished |-> 0]}
              /\ showPasswordInputs' = (log.id :> FALSE) @@ showPasswordInputs
    /\ UNCHANGED <<appVars, pipe, xf, plain, failedBefore, runs, submits, result,
                   visibleDecryptIds,
                   inlinePasswords, currentPage, legacyVars>>

\* handleInlineDecrypt after await deriveKeyBytes(password): the rest of the
\* try block, or the alert of the catch block.  finished numbers the calls in
\* the order in which they resume.
HandleInlineDecrypt ==
    /\ \E t \in inflight :
          LET r == decryptWithKey(t.log.text, deriveKeyBytes(t.password))
              nth == Cardinality({u \in inflight : u.finished > 0}) + 1
          IN  /\ t.finished = 0
              /\ inflight' = (inflight \ {t}) \cup {[t EXCEPT !.finished = nth]}
              /\ IF r.ok
                  THEN /\ visibleDecryptIds' =
                              MergeVisible(visibleDecryptIds, t.log.id, r.val)
                       /\ UNCHANGED alertMsg
                  ELSE /\ alertMsg' = "inline-failed"
                       /\ UNCHANGED visibleDecryptIds
    /\ UNCHANGED <<sender, password, text, mode, store, ghost, logs,
                   decryptedResult, pipe, xf, plain, failedBefore, runs, submits, result,
                   inlinePasswords, showPasswordInputs, currentPage, legacyVars>>

---------------------------------------------------------------------------
(* LegacySpec: the component of src/src/App.tsx, with the one-byte key and *)
(* the prompt of the Lock icon: the form is filled from empty, one         *)
(* handleProcess run passes the guard, then the snapshot, Lock clicks and  *)
(* answers to the prompt.                                                  *)

\* the passwords of LegacySpec: those of PipeSpec, the euro sign, "\u00FF\u00FF"
LegacyPasswords == Passwords \cup {<<8364>>, <<255, 255>>}

\* the texts of LegacySpec: "A", "\u00E9", "QQ==" and "Q"
LegacyTexts == {<<65>>, <<233>>, <<81, 81, 61, 61>>, <<81>>}

\* what is entered in the prompt: nothing (or Cancel), "a", "ab"
PromptAnswers == {<<>>, <<97>>, <<97, 98>>}

\* bytes.map((b) => b ^ key)
xorWithKey(bytes, key) == [i \in 1..Len(bytes) |-> Xor16(bytes[i], key) % 256]

\* the encrypt branch of handleProcess in App.tsx
legacyEncrypt(txt, key) ==
    btoa(StringFromCharCode(xorWithKey(TextEncoderEncode(txt), key)))

\* the try block of handleProcess and of handleInlineDecrypt in App.tsx
legacyDecrypt(txt, key) ==
    LET binaryStr == atob(txt)
    IN  IF ~binaryStr.ok THEN [ok |-> FALSE, val |-> <<>>]
        ELSE TextDecoderDecode(xorWithKey(Uint8ArrayOfString(binaryStr.val), key))

\* the useState declarations of App.tsx: an empty form in encrypt mode
LegacyInit ==
    /\ sender = <<>> /\ password = <<>> /\ text = <<>> /\ mode = "encrypt"
    /\ store = <<>> /\ ghost = <<>> /\ logs = <<>>
    /\ decryptedResult = <<>> /\ alertMsg = "none"
    /\ pipe = IdlePipe /\ xf = IdleXf
    /\ plain = <<>> /\ failedBefore = FALSE /\ runs = <<>> /\ submits = 0
    /\ result = <<>>
    /\ visibleDecryptIds = <<>> /\ inlinePasswords = <<>>
    /\ showPasswordInputs = <<>> /\ inflight = {}
    /\ currentPage = 1
    /\ decryptInputs = <<>> /\ timers = {} /\ inlineRun = NoRun
    /\ legacy = [pc |-> "form", pw |-> <<>>, key |-> 0, clicks |-> 0]

\* onChange of the name and password inputs of App.tsx, rendered in encrypt
\* mode only
LegacySetSender ==
    /\ mode = "encrypt"
    /\ \E s \in Senders : sender' = s
    /\ UNCHANGED <<password, text, mode, store, ghost, logs, decryptedResult,
                   alertMsg, pipe, xf, restVars>>

LegacySetPassword ==
    /\ mode = "encrypt"
    /\ \E p \in LegacyPasswords : password' = p
    /\ UNCHANGED <<sender, text, mode, store, ghost, logs, decryptedResult,
                   alertMsg, pipe, xf, restVars>>

\* onChange of the textarea of App.tsx
LegacySetText ==
    /\ \E t \in LegacyTexts : text' = t
    /\ UNCHANGED <<sender, password, mode, store, ghost, logs, decryptedResult,
                   alertMsg, pipe, xf, restVars>>

\* onChange of the select of App.tsx
LegacySetMode ==
    /\ \E m \in {"encrypt", "decrypt"} : mode' = m
    /\ UNCHANGED <<sender, password, text, store, ghost, logs, decryptedResult,
                   alertMsg, pipe, xf, restVars>>

\* handleProcess of App.tsx, from the click to the end of its last
\* continuation
LegacyHandleProcess ==
    /\ legacy.pc = "form"
    /\ IF ProcessReturnsEarly THEN
            UNCHANGED <<legacy, text, alertMsg, store, ghost, plain,
                        decryptedResult, failedBefore>>
       ELSE LET key == deriveKeyFromPassword(password)
            IN  /\ legacy' = [legacy EXCEPT
                                  !.pc = IF mode = "encrypt" THEN "addDoc"
                                         ELSE "processed",
                                  !.pw = password, !.key = key]
                /\ IF mode = "encrypt" THEN
                        /\ store' = Append(store,
                               [sender |-> sender, password |-> <<42, 42, 42>>,
                                text |-> legacyEncrypt(text, key).val,
                                mode |-> mode])
                        /\ ghost' = Append(ghost, password)
                        /\ plain' = Append(plain, text)
                        /\ UNCHANGED <<text, alertMsg, decryptedResult,
                                       failedBefore>>
                   ELSE LET r == legacyDecrypt(text, key)
                        IN  IF r.ok THEN
                                /\ decryptedResult' = r.val
                                /\ text' = <<>>
                                /\ alertMsg' = "none"
                                /\ UNCHANGED <<store, ghost, plain, failedBefore>>
                            ELSE
                                /\ alertMsg' = "not-base64"
                                /\ failedBefore' = TRUE
                                /\ UNCHANGED <<text, store, ghost, plain,
                                               decryptedResult>>
    /\ UNCHANGED <<sender, password, mode, logs, pipe, xf, runs, submits,
                   result, inlineVars, currentPage, decryptInputs, timers,
                   inlineRun>>

\* the addDoc awaited by handleProcess of App.tsx resolves: setText("")
LegacyAddDocResolved ==
    /\ legacy.pc = "addDoc"
    /\ legacy' = [legacy EXCEPT !.pc = "processed"]
    /\ text' = <<>>
    /\ alertMsg' = "none"
    /\ UNCHANGED <<sender, password, mode, store, ghost, logs, decryptedResult,
                   pipe, xf, plain, failedBefore, runs, submits, result, inlineVars, currentPage,
                   decryptInputs, timers, inlineRun>>

\* the onSnapshot listener of App.tsx, once the document is in the collection
LegacySnapshot ==
    /\ logs # SnapshotDocs(store)
    /\ logs' = SnapshotDocs(store)
    /\ UNCHANGED <<sender, password, text, mode, store, ghost, decryptedResult,
                   alertMsg, pipe, xf, plain, failedBefore, runs, submits, result, inlineVars,
                   currentPage, legacyVars>>

\* onClick of the Lock icon: setTimeout of a callback that closes over the
\* log and over the handleInlineDecrypt, hence the decryptInputs, of the
\* render that drew the icon
LegacyLockClick ==
    /\ legacy.clicks < MaxPrompts
    /\ \E i \in 1..Len(paginatedLogs) :
          LET log == paginatedLogs[i]
          IN  /\ log.mode = "encrypt"
              /\ timers' = timers \cup
                     {[log |-> log, captured |-> decryptInputs,
                       n |-> legacy.clicks + 1]}
    /\ legacy' = [legacy EXCEPT !.clicks = @ + 1]
    /\ UNCHANGED <<appVars, pipe, xf, plain, failedBefore, runs, submits, result, inlineVars,
                   currentPage, decryptInputs, inlineRun>>

\* the setTimeout callback: prompt(), and if the answer is not empty,
\* setDecryptInputs and handleInlineDecrypt(log).  deriveKeyFromPassword
\* reads password.length outside the try block: of undefined it throws.
LegacyPrompt ==
    /\ \E t \in timers, answer \in PromptAnswers :
          /\ timers' = timers \ {t}
          /\ IF answer = <<>> THEN
                  UNCHANGED <<decryptInputs, inlineRun, visibleDecryptIds,
                              alertMsg>>
             ELSE
                  LET id == t.log.id
                      defined == id \in DOMAIN t.captured
                      used == IF defined THEN t.captured[id] ELSE <<>>
                      key == deriveKeyFromPassword(used)
                      r == legacyDecrypt(t.log.text, key)
                  IN  /\ decryptInputs' = (id :> answer) @@ decryptInputs
                      /\ inlineRun' =
                             [ran |-> TRUE, id |-> id, entered |-> answer,
                              defined |-> defined, used |-> used,
                              key |-> IF defined THEN key ELSE 0,
                              threw |-> ~defined]
                      /\ IF defined /\ r.ok
                          THEN /\ visibleDecryptIds' =
                                      MergeVisible(visibleDecryptIds, id, r.val)
                               /\ UNCHANGED alertMsg
                          ELSE IF defined
                          THEN /\ alertMsg' = "inline-failed"
                               /\ UNCHANGED visibleDecryptIds
                          ELSE UNCHANGED <<visibleDecryptIds, alertMsg>>
    /\ UNCHANGED <<sender, password, text, mode, store, ghost, logs,
                   decryptedResult, pipe, xf, plain, failedBefore, runs, submits, result,
                   inlinePasswords, showPasswordInputs, inflight, currentPage,
                   legacy>>

LegacyNext ==
    \/ LegacySetSender
    \/ LegacySetPassword
    \/ LegacySetText
    \/ LegacySetMode
    \/ LegacyHandleProcess
    \/ LegacyAddDocResolved
    \/ LegacySnapshot
    \/ LegacyLockClick
    \/ LegacyPrompt

LegacySpec == LegacyInit /\ [][LegacyNext]_vars

---------------------------------------------------------------------------
(* InlineSpec: the log list once two messages have been encrypted and the  *)
(* snapshot has arrived; inline decryptions of both records, interleaved.  *)

InlineInit ==
    /\ sender = <<115>> /\ text = <<>> /\ mode = "encrypt"
    /\ decryptedResult = <<>> /\ alertMsg = "none"
    /\ pipe = IdlePipe /\ xf = IdleXf
    /\ failedBefore = FALSE /\ runs = <<>> /\ submits = 0
    /\ result = <<>>
    /\ visibleDecryptIds = <<>> /\ inlinePasswords = <<>>
    /\ showPasswordInputs = <<>> /\ inflight = {}
    /\ currentPage = 1
    /\ decryptInputs = <<>> /\ timers = {} /\ inlineRun = NoRun
    /\ legacy = IdleLegacy
    /\ \E m \in {<<65>>, <<233>>}, p \in InlineTyped :
          /\ password = p
          /\ plain = <<<<65>>, m>>
          /\ ghost = <<<<97>>, p>>
          /\ store = <<NewDoc(<<115>>, <<97>>, deriveKeyBytes(<<97>>), <<65>>,
                              "encrypt"),
                       NewDoc(<<115>>, p, deriveKeyBytes(p), m, "encrypt")>>
          /\ logs = SnapshotDocs(store)

InlineNext ==
    \/ LockClick
    \/ InlinePasswordChange
    \/ InlineConfirm
    \/ HandleInlineDecrypt

InlineSpec == InlineInit /\ [][InlineNext]_vars

---------------------------------------------------------------------------
(* PageSpec: the pagination buttons, and snapshots that add records.       *)

\* a record of the log list of PageSpec: "A" encrypted under the key [0]
PageDoc(n) ==
    [id |-> n, sender |-> <<115>>, password |-> <<42, 42, 42>>,
     text |-> <<81, 81, 61, 61>>, mode |-> "encrypt"]

\* disabled={currentPage === 1}
PrevDisabled == currentPage = 1

\* a faulty variant: the empty list is not looked at
NextDisabled_lastOnly == currentPage = totalPages

\* disabled={currentPage === totalPages || totalPages === 0}
NextDisabled == currentPage = totalPages \/ totalPages = 0

PageInit ==
    /\ sender = <<>> /\ password = <<>> /\ text = <<>> /\ mode = "encrypt"
    /\ store = <<>> /\ ghost = <<>> /\ logs = <<>>
    /\ decryptedResult = <<>> /\ alertMsg = "none"
    /\ pipe = IdlePipe /\ xf = IdleXf
    /\ plain = <<>> /\ failedBefore = FALSE /\ runs = <<>> /\ submits = 0
    /\ result = <<>>
    /\ visibleDecryptIds = <<>> /\ inlinePasswords = <<>>
    /\ showPasswordInputs = <<>> /\ inflight = {}
    /\ currentPage = 1
    /\ decryptInputs = <<>> /\ timers = {} /\ inlineRun = NoRun
    /\ legacy = IdleLegacy

\* setCurrentPage((prev) => Math.max(prev - 1, 1))
PrevPage ==
    /\ ~PrevDisabled
    /\ currentPage' = Max(currentPage - 1, 1)
    /\ UNCHANGED <<appVars, pipe, xf, plain, failedBefore, runs, submits, result, inlineVars,
                   legacyVars>>

\* setCurrentPage((prev) => Math.min(prev + 1, totalPages))
NextPage ==
    /\ ~NextDisabled
    /\ currentPage' = Min(currentPage + 1, totalPages)
    /\ UNCHANGED <<appVars, pipe, xf, plain, failedBefore, runs, submits, result, inlineVars,
                   legacyVars>>

\* the onSnapshot listener, when other clients have added records: the list
\* is replaced by a longer one, newest first
PageSnapshot ==
    /\ \E n \in (Len(logs) + 1)..Min(Len(logs) + LOGS_PER_PAGE + 1, MaxLogs) :
          logs' = [i \in 1..n |-> PageDoc(n + 1 - i)]
    /\ UNCHANGED <<sender, password, text, mode, store, ghost, decryptedResult,
                   alertMsg, pipe, xf, restVars>>

PageNext ==
    \/ PrevPage
    \/ NextPage
    \/ PageSnapshot

PageSpec == PageInit /\ [][PageNext]_vars

---------------------------------------------------------------------------
(* BoardSpec: the component in decrypt mode once one message has been      *)
(* encrypted and the snapshot has arrived: texts typed and submitted,      *)
(* and inline decryptions of the record.                                   *)

BoardInit ==
    /\ sender = <<115>> /\ password = <<97>> /\ text = <<>> /\ mode = "decrypt"
    /\ store = <<NewDoc(<<115>>, <<97>>, deriveKeyBytes(<<97>>), <<65>>,
                        "encrypt")>>
    /\ ghost = <<<<97>>>> /\ plain = <<<<65>>>>
    /\ logs = SnapshotDocs(store)
    /\ decryptedResult = <<>> /\ alertMsg = "none"
    /\ pipe = IdlePipe /\ xf = IdleXf
    /\ failedBefore = FALSE /\ runs = <<>> /\ submits = 0
    /\ result = <<>>
    /\ visibleDecryptIds = <<>> /\ inlinePasswords = <<>>
    /\ showPasswordInputs = <<>> /\ inflight = {}
    /\ currentPage = 1
    /\ decryptInputs = <<>> /\ timers = {} /\ inlineRun = NoRun
    /\ legacy = IdleLegacy

BoardNext ==
    \/ SetText
    \/ HandleProcess
    \/ ProcessResume
    \/ LockClick
    \/ InlinePasswordChange
    \/ InlineConfirm
    \/ HandleInlineDecrypt

BoardSpec == BoardInit /\ [][BoardNext]_vars

---------------------------------------------------------------------------
(* The vocabulary of the claims.                                           *)

\* RFC 4648 Base64 with padding: a multiple of 4 characters of the alphabet,
\* the last one or two of which may be '='
IsPaddedBase64(s) ==
    /\ Len(s) % 4 = 0
    /\ \A i \in 1..Len(s) :
          \/ B64Value(s[i]) < 64
          \/ s[i] = 61 /\ i = Len(s)
          \/ s[i] = 61 /\ i = Len(s) - 1 /\ s[Len(s)] = 61

\* well-formed UTF-8 (The Unicode Standard, table 3-7)
RECURSIVE WellFormedUtf8From(_, _)
WellFormedUtf8From(b, i) ==
    LET cont(k, lo, hi) == i + k <= Len(b) /\ b[i + k] >= lo /\ b[i + k] <= hi
    IN  IF i > Len(b) THEN TRUE
        ELSE IF b[i] <= 127 THEN WellFormedUtf8From(b, i + 1)
        ELSE IF b[i] >= 194 /\ b[i] <= 223 THEN
            cont(1, 128, 191) /\ WellFormedUtf8From(b, i + 2)
        ELSE IF b[i] >= 224 /\ b[i] <= 239 THEN
            /\ cont(1, IF b[i] = 224 THEN 160 ELSE 128,
                       IF b[i] = 237 THEN 159 ELSE 191)
            /\ cont(2, 128, 191)
            /\ WellFormedUtf8From(b, i + 3)
        ELSE IF b[i] >= 240 /\ b[i] <= 244 THEN
            /\ cont(1, IF b[i] = 240 THEN 144 ELSE 128,
                       IF b[i] = 244 THEN 143 ELSE 191)
            /\ cont(2, 128, 191)
            /\ cont(3, 128, 191)
            /\ WellFormedUtf8From(b, i + 4)
        ELSE FALSE

WellFormedUtf8(b) == WellFormedUtf8From(b, 1)

\* The failure kind of a decryption of txt under pw: txt is not padded Base64
\* ("InvalidEncoding"), or it is and the bytes the XOR yields from it are
\* not well-formed UTF-8 ("InvalidText"), or neither ("none").
FailureKind(txt, pw) ==
    IF ~IsPaddedBase64(txt) THEN "InvalidEncoding"
    ELSE IF ~WellFormedUtf8(
                xorEncryptDecrypt(Uint8ArrayOfString(atob_strict(txt).val),
                                  deriveKeyBytes(pw)))
         THEN "InvalidText"
    ELSE "none"

\* a string in which every surrogate is half of a pair (well-formed UTF-16)
WellFormedUtf16(s) ==
    \A i \in 1..Len(s) :
        /\ IsHighSurrogate(s[i]) => (i < Len(s) /\ IsLowSurrogate(s[i + 1]))
        /\ IsLowSurrogate(s[i]) => (i > 1 /\ IsHighSurrogate(s[i - 1]))

\* the step in which the decrypt-mode run i, past handleProcess's first line
\* and its digest, runs the decrypt branch on the text and password it holds
DecryptSubmission(i) == ResumeRun(i) /\ runs[i].mode = "decrypt"

---------------------------------------------------------------------------
(* The component copy of part_000 lines 22-257: the submit button calls    *)
(* handleEncrypt or handleDecrypt, and the outcome of either is the result *)
(* state, shown in decrypt mode; the list shows every log, and its confirm *)
(* button hides the inline input only after handleInlineDecrypt returned.  *)

\* "복호화 실패: 키가 맞지 않거나 형식 오류"
DecryptFailedMessage ==
    <<48373, 54840, 54868, 32, 49892, 54056, 58, 32, 53412, 44032, 32, 47582,
      51648, 32, 50506, 44144, 45208, 32, 54805, 49885, 32, 50724, 47448>>

\* if (!text || !password || !sender) return;
EncryptReturnsEarly == text = <<>> \/ password = <<>> \/ sender = <<>>

\* if (!text || !password) return;
DecryptReturnsEarly == text = <<>> \/ password = <<>>

\* onClick of the submit button drawn in encrypt mode: handleEncrypt up to
\* await deriveKeyFromPassword(password)
HandleEncrypt ==
    /\ mode = "encrypt"
    /\ IF EncryptReturnsEarly THEN UNCHANGED <<runs, submits>>
       ELSE /\ submits < MaxFormSubmits
            /\ submits' = submits + 1
            /\ Len(runs) < MaxPending
            /\ Len(store) + Cardinality(EncryptRunsAtDigest) < MaxFormStore
            /\ runs' = Append(runs, [sender |-> sender, password |-> password,
                                     text |-> text, mode |-> mode,
                                     pc |-> "digest"])
    /\ UNCHANGED <<appVars, pipe, xf, plain, failedBefore, result, inlineVars,
                   currentPage, legacyVars>>

\* onClick of the submit button drawn in decrypt mode: handleDecrypt up to
\* await deriveKeyFromPassword(password)
HandleDecrypt ==
    /\ mode = "decrypt"
    /\ IF DecryptReturnsEarly THEN UNCHANGED <<runs, submits>>
       ELSE /\ submits < MaxFormSubmits
            /\ submits' = submits + 1
            /\ Len(runs) < MaxPending
            /\ runs' = Append(runs, [sender |-> sender, password |-> password,
                                     text |-> text, mode |-> mode,
                                     pc |-> "digest"])
    /\ UNCHANGED <<appVars, pipe, xf, plain, failedBefore, result, inlineVars,
                   currentPage, legacyVars>>

\* what handleDecrypt passes to setResult for the text txt and the key: the
\* decrypted text of its try block, or the message of its catch block
HandleDecryptResult(txt, key) ==
    LET r == decryptWithKey(txt, key)
    IN  IF r.ok THEN r.val ELSE DecryptFailedMessage

\* run i after its key is derived: handleEncrypt up to the call of addDoc,
\* which puts a document with password "" in the collection, or the rest of
\* handleDecrypt
SubmitWithKey(i, key) ==
    IF runs[i].mode = "encrypt" THEN
        LET base64 == encryptWithKey(runs[i].text, key).val
        IN  /\ result' = base64
            /\ store' = Append(store, [sender |-> runs[i].sender,
                                       password |-> <<>>, text |-> base64,
                                       mode |-> "encrypt"])
            /\ ghost' = Append(ghost, runs[i].password)
            /\ plain' = Append(plain, runs[i].text)
            /\ runs' = [runs EXCEPT ![i].pc = "addDoc"]
    ELSE /\ result' = HandleDecryptResult(runs[i].text, key)
         /\ runs' = RemoveAt(runs, i)
         /\ UNCHANGED <<store, ghost, plain>>

\* the digest awaited by run i resolves
SubmitResumeRun(i) ==
    /\ i \in 1..Len(runs)
    /\ runs[i].pc = "digest"
    /\ SubmitWithKey(i, deriveKeyBytes(runs[i].password))
    /\ UNCHANGED <<sender, password, text, mode, logs, decryptedResult,
                   alertMsg, pipe, xf, failedBefore, submits, inlineVars,
                   currentPage, legacyVars>>

SubmitResume == \E i \in 1..Len(runs) : SubmitResumeRun(i)

\* the addDoc awaited by handleEncrypt resolves: setText("")
EncryptAddDocResolved ==
    /\ \E i \in 1..Len(runs) :
          /\ runs[i].pc = "addDoc"
          /\ runs' = RemoveAt(runs, i)
    /\ text' = <<>>
    /\ UNCHANGED <<sender, password, mode, store, ghost, logs, decryptedResult,
                   alertMsg, pipe, xf, plain, failedBefore, submits, result,
                   inlineVars, currentPage, legacyVars>>

\* onClick of the Lock icon of a record of the list, which shows every log
FormLockClick ==
    /\ \E i \in 1..Len(logs) :
          LET log == logs[i]
          IN  /\ log.mode = "encrypt" /\ ~IsVisible(log.id)
              /\ showPasswordInputs' =
                     (log.id :> ~IsShown(log.id)) @@ showPasswordInputs
    /\ UNCHANGED <<appVars, pipe, xf, plain, failedBefore, runs, submits, result,
                   visibleDecryptIds, inlinePasswords, inflight, currentPage,
                   legacyVars>>

\* onChange of the inline password input of a record
FormInlinePasswordChange ==
    /\ \E i \in 1..Len(logs), p \in InlineTyped :
          LET log == logs[i]
          IN  /\ log.mode = "encrypt" /\ IsShown(log.id) /\ ~IsVisible(log.id)
              /\ inlinePasswords' = (log.id :> p) @@ inlinePasswords
    /\ UNCHANGED <<appVars, pipe, xf, plain, failedBefore, runs, submits, result,
                   visibleDecryptIds, showPasswordInputs, inflight, currentPage,
                   legacyVars>>

\* onClick of the inline confirm button, and onKeyDown of the inline input
\* on Enter: await handleInlineDecrypt(log, inlinePasswords[log.id] || ""),
\* up to the await of the key; the input stays
FormInlineConfirm ==
    /\ Cardinality(inflight) < MaxFormInflight
    /\ \E i \in 1..Len(logs) :
          LET log == logs[i]
              typed == IF log.id \in DOMAIN inlinePasswords
                       THEN inlinePasswords[log.id] ELSE <<>>
          IN  /\ log.mode = "encrypt" /\ IsShown(log.id) /\ ~IsVisible(log.id)
              /\ inflight' = inflight \cup
                     {[log |-> log, password |-> typed,
                       started |-> Cardinality(inflight) + 1, finished |-> 0,
                       pc |-> "key"]}
    /\ UNCHANGED <<appVars, pipe, xf, plain, failedBefore, runs, submits, result,
                   visibleDecryptIds, inlinePasswords, showPasswordInputs,
                   currentPage, legacyVars>>

\* call t of handleInlineDecrypt after its key resolved
InlineWithKey(t, key) ==
    LET r == decryptWithKey(t.log.text, key)
    IN  IF r.ok
        THEN /\ visibleDecryptIds' =
                    MergeVisible(visibleDecryptIds, t.log.id, r.val)
             /\ UNCHANGED alertMsg
        ELSE /\ alertMsg' = "inline-failed"
             /\ UNCHANGED visibleDecryptIds

\* the key awaited by a call of handleInlineDecrypt resolves: the try block
\* or the alert of the catch block, and the call returns to the handler
\* that awaits it
FormHandleInlineDecrypt ==
    /\ \E t \in inflight :
          LET nth == Cardinality({u \in inflight : u.finished > 0}) + 1
          IN  /\ t.pc = "key"
              /\ inflight' = (inflight \ {t}) \cup
                     {[t EXCEPT !.finished = nth, !.pc = "returned"]}
              /\ InlineWithKey(t, deriveKeyBytes(t.password))
    /\ UNCHANGED <<sender, password, text, mode, store, ghost, logs,
                   decryptedResult, pipe, xf, plain, failedBefore, runs,
                   submits, result, inlinePasswords, showPasswordInputs,
                   currentPage, legacyVars>>

\* the handler that awaited call t goes on: setShowPasswordInputs with
\* false for the record
FormInlineHide ==
    /\ \E t \in inflight :
          /\ t.pc = "returned"
          /\ inflight' = (inflight \ {t}) \cup {[t EXCEPT !.pc = "done"]}
          /\ showPasswordInputs' = (t.log.id :> FALSE) @@ showPasswordInputs
    /\ UNCHANGED <<appVars, pipe, xf, plain, failedBefore, runs, submits, result,
                   visibleDecryptIds, inlinePasswords, currentPage, legacyVars>>

\* the result line of the form: mode === "decrypt" && result
ResultShown == mode = "decrypt" /\ result # <<>>

FormNext ==
    \/ SetSender
    \/ SetPassword
    \/ SetText
    \/ SetMode
    \/ HandleEncrypt
    \/ HandleDecrypt
    \/ SubmitResume
    \/ EncryptAddDocResolved
    \/ OnSnapshot
    \/ FormLockClick
    \/ FormInlinePasswordChange
    \/ FormInlineConfirm
    \/ FormHandleInlineDecrypt
    \/ FormInlineHide

FormSpec == Init /\ [][FormNext]_vars

---------------------------------------------------------------------------
(* The claims.                                                             *)

\* C1 (as claimed; refuted): once a message m has been encrypted under a
\* password and the result decrypted under the same password, the decryption
\* succeeded and returned exactly m.  Stated here for the messages that are
\* well-formed Unicode text only: it fails even for those.
C1_RoundTrip ==
    (pipe.pc = "decrypted" /\ pipe.p1 = pipe.p2 /\ WellFormedUtf16(pipe.m))
        => (pipe.dec.ok /\ pipe.dec.val = pipe.m)

\* C2: xorEncryptDecrypt applied twice with the same key of length >= 1
\* gives back the data.
C2_Involution ==
    (xf.pc = "twice" /\ Len(xf.key) >= 1) => xf.back = xf.data

C2_Witness ==
    /\ xf.pc = "twice" /\ Len(xf.key) = MaxKeyLen /\ Len(xf.data) = MaxDataLen
    /\ xf.out # xf.data

\* C3: with a key of length >= 1 the output has the length of the data, and
\* each bit of output byte i is the sum modulo 2 of that bit of data byte i
\* and of key byte (i mod len(key)) (indices from 0).
C3_XorOfKeyByte ==
    (xf.pc # "init" /\ Len(xf.key) >= 1) =>
        /\ Len(xf.out) = Len(xf.data)
        /\ \A i \in 1..Len(xf.data) :
              /\ xf.out[i] \in 0..255
              /\ \A k \in 0..7 :
                    Bit(xf.out[i], k) =
                        (Bit(xf.data[i], k)
                            + Bit(xf.key[((i - 1) % Len(xf.key)) + 1], k)) % 2

C3_Witness ==
    /\ xf.pc = "once" /\ Len(xf.key) = 2 /\ xf.key[1] # xf.key[2]
    /\ Len(xf.data) = MaxDataLen

\* C4 (as claimed; refuted): xorEncryptDecrypt with an empty key does not
\* return at all, so in particular never returns the data unchanged.
C4_EmptyKeyRejected ==
    (xf.pc # "init" /\ Len(xf.key) = 0 /\ Len(xf.data) > 0) => xf.out # xf.data

\* C5 (as claimed; refuted): a decrypt submission whose text is not padded
\* Base64 shows the failure alert and leaves decryptedResult as it was.
C5_UnpaddedRejected ==
    [][\A i \in 1..Len(runs) :
          (DecryptSubmission(i) /\ ~IsPaddedBase64(runs[i].text))
             => (alertMsg' = "not-base64"
                    /\ decryptedResult' = decryptedResult)]_vars

\* C6 (as claimed; refuted): a decrypt submission whose XOR output is not
\* well-formed UTF-8 fails: it reports a failure and stores no decrypted text.
C6_InvalidTextRejected ==
    [][\A i \in 1..Len(runs) :
          (DecryptSubmission(i) /\ IsPaddedBase64(runs[i].text)
              /\ FailureKind(runs[i].text, runs[i].password) = "InvalidText")
             => (alertMsg' # "none" /\ decryptedResult' = decryptedResult)]_vars

\* C7 (as claimed; refuted): failures of different kinds end in different
\* outcomes: the result a decrypt submission shows for a text that is not
\* padded Base64 is the result of no decryption whose failure is invalid
\* text.
C7_FailureKindsDistinct ==
    [][\A i \in 1..Len(runs) :
          (SubmitResumeRun(i) /\ runs[i].mode = "decrypt"
              /\ FailureKind(runs[i].text, runs[i].password) = "InvalidEncoding")
             => \A t \in TypedTexts, p \in FormPasswords \ {<<>>} :
                   FailureKind(t, p) = "InvalidText"
                      => result' # HandleDecryptResult(t, deriveKeyBytes(p))]_vars

\* C8: the key derived from any password, the empty one included, is 32 bytes.
C8_KeyIs32Bytes ==
    /\ pipe.pc \in {"addDoc", "stored", "digest2", "decrypted"} =>
          /\ Len(pipe.k1) = 32
          /\ \A i \in 1..Len(pipe.k1) : pipe.k1[i] \in 0..255
    /\ pipe.pc = "decrypted" =>
          /\ Len(pipe.k2) = 32
          /\ \A i \in 1..Len(pipe.k2) : pipe.k2[i] \in 0..255

\* the key of the empty password, which only a decrypt run derives
C8_Witness ==
    pipe.pc = "decrypted" /\ pipe.p1 = <<42, 42, 42>> /\ pipe.p2 = <<>>

\* C9: two passwords have the same derived key exactly when they are the
\* same password.
C9_KeysSeparatePasswords ==
    pipe.pc = "decrypted" => ((pipe.k1 = pipe.k2) <=> (pipe.p1 = pipe.p2))

\* "ab" and "!" have the same legacy hash; their derived keys differ
C9_Witness ==
    /\ pipe.pc = "decrypted" /\ pipe.p1 = <<97, 98>> /\ pipe.p2 = <<33>>
    /\ deriveKeyFromPassword(pipe.p1) = deriveKeyFromPassword(pipe.p2)
    /\ pipe.k1 # pipe.k2

\* C10 (as claimed; refuted): the password field of every record appended
\* differs from the password typed for it.
C10_StoredDiffersFromTyped ==
    \A i \in 1..Len(store) : store[i].password # ghost[i]

\* C10 (amended): the password field of every record appended is the fixed
\* placeholder "***", whatever password was typed for it; it equals the typed
\* password only when that password is itself "***".
C10_StoredIsPlaceholder ==
    \A i \in 1..Len(store) :
        /\ store[i].password = <<42, 42, 42>>
        /\ (store[i].password = ghost[i]) <=> (ghost[i] = <<42, 42, 42>>)

C10_Witness ==
    \E i \in 1..Len(store) : ghost[i] = <<97>> /\ store[i].password # ghost[i]

\* C11: the text field of every record appended is padded Base64 (a multiple
\* of 4 characters of the standard alphabet, then '=' padding), it decodes
\* to the cipher bytes of the text typed under the key of the password
\* typed, and it is not the text typed.
C11_StoredTextIsBase64 ==
    \A i \in 1..Len(store) :
        LET stored == store[i].text
            cipher == xorEncryptDecrypt(TextEncoderEncode(plain[i]),
                                        deriveKeyBytes(ghost[i]))
        IN  /\ IsPaddedBase64(stored)
            /\ Len(stored) = 4 * ((Len(cipher) + 2) \div 3)
            /\ atob_strict(stored).ok
            /\ Uint8ArrayOfString(atob_strict(stored).val) = cipher
            /\ stored # plain[i]

\* a record whose two cipher bytes are stored as three characters and one '='
C11_Witness ==
    \E i \in 1..Len(store) :
        /\ plain[i] = <<81, 81>> /\ Len(store[i].text) = 4
        /\ store[i].text[4] = 61 /\ store[i].text[3] # 61

\* C12: the collection changes only by a handleProcess run in encrypt mode
\* with text, password and name all non-empty, which appends one record; a
\* run in decrypt mode, or with an empty text, password or name, leaves the
\* collection as it is: a click with an empty field starts no run, and the
\* decrypt branch of a run adds nothing.
C12_AppendOnlyByFullEncrypt ==
    [][/\ (store' # store) =>
              \E i \in 1..Len(runs) :
                  /\ ResumeRun(i) /\ runs[i].mode = "encrypt"
                  /\ runs[i].text # <<>> /\ runs[i].password # <<>>
                  /\ runs[i].sender # <<>>
                  /\ Len(store') = Len(store) + 1
                  /\ SubSeq(store', 1, Len(store)) = store
       /\ HandleProcess => store' = store
       /\ (HandleProcess /\ (text = <<>> \/ (mode = "encrypt" /\
                                 (password = <<>> \/ sender = <<>>))))
              => runs' = runs
       /\ \A i \in 1..Len(runs) : DecryptSubmission(i) => store' = store]_vars

\* a record has been appended, and a decrypt submission after it has shown
\* its result
C12_Witness ==
    /\ Len(store) = 1 /\ mode = "decrypt" /\ decryptedResult # <<>>
    /\ text = <<>>

\* what handleInlineDecrypt call t computes for its record
InlineResult(t) == decryptWithKey(t.log.text, deriveKeyBytes(t.password)).val

\* C13: when the only inline decryptions started are of different records,
\* then however their resumptions interleave, every call that has resumed
\* has its result stored under the id of its own record (the plaintext of
\* that record when its password was typed), and every entry of
\* visibleDecryptIds is the result of a resumed call for that very record.
C13_ResultsUnderOwnId ==
    /\ \A t \in inflight :
          (t.finished > 0
              /\ \A u \in inflight : u # t => u.log.id # t.log.id) =>
            /\ t.log.id \in DOMAIN visibleDecryptIds
            /\ visibleDecryptIds[t.log.id] = InlineResult(t)
            /\ t.password = ghost[t.log.id] =>
                   visibleDecryptIds[t.log.id] = plain[t.log.id]
    /\ \A id \in DOMAIN visibleDecryptIds :
          \E t \in inflight :
              /\ t.finished > 0 /\ t.log.id = id
              /\ visibleDecryptIds[id] = InlineResult(t)

\* two decryptions of different records that resumed in the reverse of the
\* order in which they were started, both shown
C13_Witness ==
    \E t, u \in inflight :
        /\ t.log.id # u.log.id
        /\ t.started < u.started /\ u.finished > 0 /\ u.finished < t.finished
        /\ t.password = ghost[t.log.id] /\ u.password = ghost[u.log.id]
        /\ IsVisible(t.log.id) /\ IsVisible(u.log.id)

\* 31 to the power k, modulo 256
RECURSIVE Pow31(_)
Pow31(k) == IF k = 0 THEN 1 ELSE (31 * Pow31(k - 1)) % 256

\* the sum over the characters of pw of charCode * 31^(distance to the end),
\* modulo 256: the rolling hash as one polynomial
RECURSIVE PolyHashFrom(_, _)
PolyHashFrom(pw, i) ==
    IF i > Len(pw) THEN 0
    ELSE (((pw[i] % 256) * Pow31(Len(pw) - i)) + PolyHashFrom(pw, i + 1)) % 256

\* C14: the key the legacy deriveKeyFromPassword returns for a password, in
\* handleProcess and in handleInlineDecrypt, is an integer in 0..255, equal
\* to the rolling hash of its character codes from 0, and 0 for the empty
\* password.
C14_LegacyKeyIsRollingHash ==
    /\ legacy.pc \in {"addDoc", "processed"} =>
          /\ legacy.key \in 0..255
          /\ legacy.key = PolyHashFrom(legacy.pw, 1)
          /\ legacy.pw = <<>> => legacy.key = 0
    /\ (inlineRun.ran /\ inlineRun.defined) =>
          /\ inlineRun.key \in 0..255
          /\ inlineRun.key = PolyHashFrom(inlineRun.used, 1)

\* the key of the empty password in a decrypt submission, and the key of a
\* password with a character code above 255
C14_Witness ==
    \/ legacy.pc = "processed" /\ legacy.pw = <<>> /\ decryptedResult # <<>>
    \/ legacy.pc = "processed" /\ legacy.pw = <<8364>> /\ legacy.key = 172

\* C15 (as claimed; refuted): the decryption a prompt entry triggers uses the
\* password just entered and does not throw.
C15_PromptUsesEnteredPassword ==
    inlineRun.ran =>
        /\ ~inlineRun.threw
        /\ inlineRun.defined /\ inlineRun.used = inlineRun.entered

\* C16: a decrypt submission whose text atob rejects shows the failure alert
\* and leaves the textarea, decryptedResult, visibleDecryptIds, the log list
\* and the collection as they were; and a decrypt submission made after such
\* a failure, with a text atob accepts, shows its result.
C16_FailureLeavesStateAlone ==
    [][\A i \in 1..Len(runs) :
          /\ (DecryptSubmission(i) /\ ~atob(runs[i].text).ok) =>
                 /\ alertMsg' = "not-base64"
                 /\ text' = text /\ decryptedResult' = decryptedResult
                 /\ visibleDecryptIds' = visibleDecryptIds
                 /\ logs' = logs /\ store' = store
          /\ (DecryptSubmission(i) /\ failedBefore /\ atob(runs[i].text).ok) =>
                 /\ alertMsg' = "none"
                 /\ decryptedResult' =
                        decryptWithKey(runs[i].text,
                                       deriveKeyBytes(runs[i].password)).val
                 /\ text' = <<>>]_vars

\* after a failed submission, with a result on display and the record
\* decrypted inline, a later submission has succeeded (only a successful one
\* empties the textarea)
C16_Witness ==
    /\ failedBefore /\ text = <<>> /\ alertMsg = "none"
    /\ decryptedResult # <<>> /\ IsVisible(1)

\* the least integer that is at least n / d
CeilDiv(n, d) == IF n % d = 0 THEN n \div d ELSE (n \div d) + 1

\* C17: after any clicks on the enabled page buttons and any snapshots that
\* add records, 1 <= currentPage <= max(1, ceil(len(logs)/10)), and the page
\* displayed is the at most 10 records of logs from index (currentPage-1)*10
\* (from 0) up to, not including, currentPage*10.
C17_PageWithinRange ==
    /\ 1 <= currentPage
    /\ currentPage <= Max(1, CeilDiv(Len(logs), 10))
    /\ Len(paginatedLogs) <= 10
    /\ Len(paginatedLogs) = Max(0, Min(10, Len(logs) - (currentPage - 1) * 10))
    /\ \A i \in 1..Len(paginatedLogs) :
          paginatedLogs[i] = logs[(currentPage - 1) * 10 + i]

\* the third page of 25 records, which holds the last 5
C17_Witness ==
    /\ Len(logs) = 25 /\ currentPage = 3 /\ Len(paginatedLogs) = 5
    /\ paginatedLogs[5].id = 1

===========================================================================
